---------------------------- MODULE Spec2Model ----------------------------
(***************************************************************************)
(* TeamspeakQuery (src/index.js): the command queue, the line handler, the *)
(* line parser and the escape codec of a ServerQuery client.               *)
(*                                                                         *)
(* A JavaScript string is a sequence of characters; a character is a       *)
(* one-element TLA+ string, except the control characters, which are named *)
(* LF, CR, TAB, VT and FF.                                                 *)
(***************************************************************************)
EXTENDS Naturals, Sequences, FiniteSets

VARIABLES
    queue,          \* this.queue: the commands not yet written
    _current,       \* this._current: the command in flight, or Null
    _statusLines,   \* this._statusLines: banner lines counted so far
    written,        \* what sock.write has been given, in order
    settled,        \* the resolve / reject calls made, in order
    events,         \* the emit calls made, in order
    lastError,      \* what the latest handleLine call threw, or NoError
    nsent,          \* number of send calls so far
    noise,          \* number of lines handled that no command waited for
    lastData,       \* history: the fields of the latest data line handled
                    \* since the command in flight was written, if any
    codec,          \* the codec round trip in progress (CodecSpec only)
    call            \* one call of send's text building or of parse, its
                    \* arguments and result (TextSpec and ParseSpec only)

vars == <<queue, _current, _statusLines, written, settled, events,
          lastError, nsent, noise, lastData, codec, call>>

session == <<queue, _current, _statusLines, written, settled, events,
             lastError, nsent, noise, lastData>>

-----------------------------------------------------------------------------
(* Bounds of the model.                                                    *)

MaxSends == 3       \* send calls in one behaviour
MaxNoise == 2       \* lines in the Ready phase that end no command
MaxTokens == 3      \* key=value tokens in a line handed to parse alone
MaxStrLen == 2      \* length of the strings the codec is run on

-----------------------------------------------------------------------------
(* Characters and strings.                                                 *)

BSL == "\\"
LF == "LF"
CR == "CR"
TAB == "TAB"
VT == "VT"
FF == "FF"

\* The alphabet of the codec round trip: every character escape touches and
\* every letter that follows a backslash in an escape sequence.
CodecChars == {BSL, "/", "|", " ", LF, CR, TAB, VT, FF,
               "p", "n", "r", "t", "v", "f", "s"}

RECURSIVE StringsUpTo(_, _)
StringsUpTo(chars, n) ==
    IF n = 0 THEN {<<>>}
    ELSE LET shorter == StringsUpTo(chars, n - 1)
         IN  shorter \cup {Append(s, c) : s \in shorter, c \in chars}

\* String.prototype.replace with a global pattern that matches the literal
\* character sequence pat: a left-to-right scan, matches replaced by rep and
\* never rescanned.
RECURSIVE ReplaceAll(_, _, _)
ReplaceAll(s, pat, rep) ==
    IF Len(s) < Len(pat) THEN s
    ELSE IF SubSeq(s, 1, Len(pat)) = pat
         THEN rep \o ReplaceAll(SubSeq(s, Len(pat) + 1, Len(s)), pat, rep)
         ELSE <<Head(s)>> \o ReplaceAll(Tail(s), pat, rep)

\* TeamspeakQuery.escape: nine global replacements, applied one after the
\* other, each to the result of the one before.
escape(str) ==
    LET s1 == ReplaceAll(str, <<BSL>>, <<BSL, BSL>>)
        s2 == ReplaceAll(s1, <<"/">>, <<BSL, "/">>)
        s3 == ReplaceAll(s2, <<"|">>, <<BSL, "p">>)
        s4 == ReplaceAll(s3, <<LF>>, <<BSL, "n">>)
        s5 == ReplaceAll(s4, <<CR>>, <<BSL, "r">>)
        s6 == ReplaceAll(s5, <<TAB>>, <<BSL, "t">>)
        s7 == ReplaceAll(s6, <<VT>>, <<BSL, "v">>)
        s8 == ReplaceAll(s7, <<FF>>, <<BSL, "f">>)
    IN  ReplaceAll(s8, <<" ">>, <<BSL, "s">>)

\* TeamspeakQuery.unescape: nine global replacements, applied one after the
\* other, each to the result of the one before; the doubled backslash first.
unescape(str) ==
    LET s1 == ReplaceAll(str, <<BSL, BSL>>, <<BSL>>)
        s2 == ReplaceAll(s1, <<BSL, "/">>, <<"/">>)
        s3 == ReplaceAll(s2, <<BSL, "p">>, <<"|">>)
        s4 == ReplaceAll(s3, <<BSL, "n">>, <<LF>>)
        s5 == ReplaceAll(s4, <<BSL, "r">>, <<CR>>)
        s6 == ReplaceAll(s5, <<BSL, "t">>, <<TAB>>)
        s7 == ReplaceAll(s6, <<BSL, "v">>, <<VT>>)
        s8 == ReplaceAll(s7, <<BSL, "f">>, <<FF>>)
    IN  ReplaceAll(s8, <<BSL, "s">>, <<" ">>)

-----------------------------------------------------------------------------
(* Character classes of the regular expression in parse, and of trim.      *)

LowerCase == <<"a", "b", "c", "d", "e", "f", "g", "h", "i", "j", "k", "l", "m",
               "n", "o", "p", "q", "r", "s", "t", "u", "v", "w", "x", "y", "z">>
UpperCase == <<"A", "B", "C", "D", "E", "F", "G", "H", "I", "J", "K", "L", "M",
               "N", "O", "P", "Q", "R", "S", "T", "U", "V", "W", "X", "Y", "Z">>
Digits == {"0", "1", "2", "3", "4", "5", "6", "7", "8", "9"}

\* \w
WordChars ==
    {LowerCase[i] : i \in DOMAIN LowerCase} \cup
    {UpperCase[i] : i \in DOMAIN UpperCase} \cup Digits \cup {"_"}

\* \s, and the characters trim strips (of those the model has)
SpaceChars == {" ", TAB, LF, CR, VT, FF}

\* [^\s\|]
ValueChar(c) == c \notin SpaceChars /\ c # "|"

\* the i flag: a letter of the pattern matches either case
ToLower(c) ==
    IF \E i \in DOMAIN UpperCase : UpperCase[i] = c
    THEN LowerCase[CHOOSE i \in DOMAIN UpperCase : UpperCase[i] = c]
    ELSE c

LowerStr(s) == [i \in DOMAIN s |-> ToLower(s[i])]

Min(S) == CHOOSE m \in S : \A n \in S : m <= n

\* String.prototype.trim
RECURSIVE trim(_)
trim(s) ==
    IF s = <<>> THEN s
    ELSE IF Head(s) \in SpaceChars THEN trim(Tail(s))
    ELSE IF s[Len(s)] \in SpaceChars THEN trim(SubSeq(s, 1, Len(s) - 1))
    ELSE s

\* how many characters from position i on are word characters (\w+, greedy)
WordRun(s, i) ==
    LET stops == {j \in i..Len(s) : s[j] \notin WordChars}
    IN  IF stops = {} THEN Len(s) + 1 - i ELSE Min(stops) - i

\* how many characters from position i on are value characters ([^\s\|]+)
ValueRun(s, i) ==
    LET stops == {j \in i..Len(s) : ~ValueChar(s[j])}
    IN  IF stops = {} THEN Len(s) + 1 - i ELSE Min(stops) - i

ErrorTag == <<"e", "r", "r", "o", "r">>
NotifyPrefix == <<"n", "o", "t", "i", "f", "y">>

\* /(^error|^notify\w+|\w+=[^\s\|]+)/gi tried at position i: the length of
\* the match of the first alternative that matches there, 0 when none does.
MatchLen(s, i) ==
    LET w == WordRun(s, i)
        v == ValueRun(s, i + w + 1)
    IN  IF i = 1 /\ Len(s) >= 5 /\ LowerStr(SubSeq(s, 1, 5)) = ErrorTag
            THEN 5
        ELSE IF /\ i = 1
                /\ Len(s) >= 7
                /\ LowerStr(SubSeq(s, 1, 6)) = NotifyPrefix
                /\ s[7] \in WordChars
            THEN 6 + WordRun(s, 7)
        ELSE IF w >= 1 /\ i + w <= Len(s) /\ s[i + w] = "=" /\ v >= 1
            THEN w + 1 + v
        ELSE 0

\* str.match(regexp) with the g flag: every match, left to right, the scan
\* resuming after each one; <<>> stands for the null of "no match".
RECURSIVE MatchAll(_, _)
MatchAll(s, i) ==
    IF i > Len(s) THEN <<>>
    ELSE LET n == MatchLen(s, i)
         IN  IF n > 0
             THEN <<SubSeq(s, i, i + n - 1)>> \o MatchAll(s, i + n)
             ELSE MatchAll(s, i + 1)

\* v.split(/=/): every piece between '=' characters
RECURSIVE split(_)
split(s) ==
    LET eqs == {j \in 1..Len(s) : s[j] = "="}
    IN  IF eqs = {} THEN <<s>>
        ELSE <<SubSeq(s, 1, Min(eqs) - 1)>>
             \o split(SubSeq(s, Min(eqs) + 1, Len(s)))

\* Names every object inherits from Object.prototype (three of them): the
\* in operator finds them in the fresh params object.
ObjectPrototypeKeys ==
    { <<"v", "a", "l", "u", "e", "O", "f">>,
      <<"t", "o", "S", "t", "r", "i", "n", "g">>,
      <<"c", "o", "n", "s", "t", "r", "u", "c", "t", "o", "r">> }

\* the inherited (function) value found under such a name
Inherited(k) == <<"Object.prototype.">> \o k

\* A params object is a function from its own keys to values; a value is
\* [arr |-> FALSE, vals |-> <<v>>] for the string v and
\* [arr |-> TRUE, vals |-> <<v1, ..., vn>>] for an array.
NoParams == <<>>

HasKey(params, k) == k \in DOMAIN params \/ k \in ObjectPrototypeKeys

SetKey(params, k, val) ==
    [x \in DOMAIN params \cup {k} |-> IF x = k THEN val ELSE params[x]]

\* the body of parsed.forEach: one token added to params
AddToken(params, token) ==
    LET v == split(token)
        key == unescape(v[1])
        \* v[1] of the code; undefined (modelled <<>>) when there is no '='
        val == IF Len(v) >= 2 THEN unescape(v[2]) ELSE <<>>
        old == IF key \in DOMAIN params
               THEN params[key]
               ELSE [arr |-> FALSE, vals |-> <<Inherited(key)>>]
    IN  IF HasKey(params, key)
        THEN IF ~old.arr
             THEN SetKey(params, key,
                         [arr |-> TRUE, vals |-> <<old.vals[1], val>>])
             ELSE SetKey(params, key,
                         [arr |-> TRUE, vals |-> Append(old.vals, val)])
        ELSE SetKey(params, key, [arr |-> FALSE, vals |-> <<val>>])

RECURSIVE AddTokens(_, _)
AddTokens(params, tokens) ==
    IF tokens = <<>> THEN params
    ELSE AddTokens(AddToken(params, Head(tokens)), Tail(tokens))

NoResponse == [none |-> TRUE]

\* (fault: an empty response, not null, for a line without tokens)
parseNeverNull(str) ==
    LET parsed == MatchAll(str, 1)
        tagged == \A j \in 1..Len(parsed[1]) : parsed[1][j] # "="
    IN  IF parsed # <<>>
        THEN [type   |-> IF tagged THEN parsed[1] ELSE <<>>,
              params |-> AddTokens(NoParams,
                                   IF tagged THEN Tail(parsed) ELSE parsed)]
        ELSE [type |-> <<>>, params |-> NoParams]

\* TeamspeakQuery.parse; a type of <<>> stands for the null type
parse(str) ==
    LET parsed == MatchAll(str, 1)
        tagged == \A j \in 1..Len(parsed[1]) : parsed[1][j] # "="
    IN  IF parsed # <<>>
        THEN [type   |-> IF tagged THEN parsed[1] ELSE <<>>,
              params |-> AddTokens(NoParams,
                                   IF tagged THEN Tail(parsed) ELSE parsed)]
        ELSE NoResponse

-----------------------------------------------------------------------------
(* The command text send builds.                                           *)

\* Array.prototype.join
RECURSIVE join(_, _)
join(parts, sep) ==
    IF parts = <<>> THEN <<>>
    ELSE IF Len(parts) = 1 THEN parts[1]
    ELSE parts[1] \o sep \o join(Tail(parts), sep)

\* The options of a send call: [kind |-> "object", entries |-> e], e the
\* object's properties in insertion order, each [key, arr, vals] with vals
\* the one value (arr FALSE) or the elements of the array (arr TRUE);
\* [kind |-> "flag", val |-> v] for a truthy value that is no object;
\* [kind |-> "none"] for a missing or falsy one.

DigitSeq == <<"0", "1", "2", "3", "4", "5", "6", "7", "8", "9">>

DigitValue(c) == (CHOOSE d \in DOMAIN DigitSeq : DigitSeq[d] = c) - 1

\* a < b for two canonical decimal texts: the shorter is the smaller, and of
\* two of one length the one with the smaller digit where they first differ
IndexLess(a, b) ==
    \/ Len(a) < Len(b)
    \/ /\ Len(a) = Len(b)
       /\ \E i \in DOMAIN a :
             /\ DigitValue(a[i]) < DigitValue(b[i])
             /\ \A j \in 1..(i - 1) : a[j] = b[j]

\* 2^32 - 2, the largest integer index
MaxIndex == <<"4", "2", "9", "4", "9", "6", "7", "2", "9", "4">>

\* A property name that is an integer index: the canonical decimal text of
\* an integer from 0 to 2^32 - 2.
IsIndexKey(k) ==
    /\ k # <<>>
    /\ \A i \in DOMAIN k : k[i] \in Digits
    /\ Len(k) = 1 \/ k[1] # "0"
    /\ ~IndexLess(MaxIndex, k)

RECURSIVE Ascending(_)
Ascending(es) ==
    IF es = {} THEN <<>>
    ELSE LET least == CHOOSE e \in es :
                          \A f \in es : ~IndexLess(f.key, e.key)
         IN  <<least>> \o Ascending(es \ {least})

\* for(let key in options): the order in which the properties of an object
\* are visited, the integer indices first, ascending, then every other name
\* in the order of its insertion.
ForIn(entries) ==
    LET IsIndex(e) == IsIndexKey(e.key)
        IsName(e) == ~IsIndexKey(e.key)
    IN  Ascending({entries[i] : i \in {j \in DOMAIN entries :
                                          IsIndex(entries[j])}})
        \o SelectSeq(entries, IsName)

\* (fault: the key of a scalar option written as it is, not escaped)
OptionTokenRawKey(e) ==
    IF e.arr
    THEN join([i \in DOMAIN e.vals |->
                   escape(e.key) \o <<"=">> \o escape(e.vals[i])], <<"|">>)
    ELSE e.key \o <<"=">> \o escape(e.vals[1])

\* one pass of the for-in loop: the token of one option
OptionToken(e) ==
    IF e.arr
    THEN join([i \in DOMAIN e.vals |->
                   escape(e.key) \o <<"=">> \o escape(e.vals[i])], <<"|">>)
    ELSE escape(e.key) \o <<"=">> \o escape(e.vals[1])

\* cmdStringParts.join(' ') of send
CommandText(cmd, options, flags) ==
    LET allFlags == IF options.kind = "flag"
                    THEN <<options.val>> \o flags
                    ELSE flags
        visited == IF options.kind = "object"
                   THEN ForIn(options.entries)
                   ELSE <<>>
        tokens == [i \in DOMAIN visited |-> OptionToken(visited[i])]
    IN  join(<<cmd>> \o tokens \o [i \in DOMAIN allFlags |-> escape(allFlags[i])],
             <<" ">>)

-----------------------------------------------------------------------------
(* The calls and lines the model draws from.                               *)

SendInputs ==
    { \* send('use', { sid: 1 })
      [cmd |-> <<"u", "s", "e">>,
       options |-> [kind |-> "object", entries |->
           << [key |-> <<"s", "i", "d">>, arr |-> FALSE, vals |-> << <<"1">> >>] >>],
       flags |-> <<>>],
      \* send('k', { clid: [1, 2] }, '-a b')
      [cmd |-> <<"k">>,
       options |-> [kind |-> "object", entries |->
           << [key |-> <<"c", "l", "i", "d">>, arr |-> TRUE,
               vals |-> << <<"1">>, <<"2">> >>] >>],
       flags |-> << <<"-", "a", " ", "b">> >>] }

LineOk == <<"e", "r", "r", "o", "r", " ", "i", "d", "=", "0", " ", "m", "s", "g", "=", "o", "k">>
\* (with the carriage return a line carries when the server ends lines \n\r)
LineFail == <<CR, "e", "r", "r", "o", "r", " ", "i", "d", "=", "1", " ", "m", "s", "g", "=", "x">>
LineData == <<"a", "=", "1">>
LineList == <<"b", "=", "2", "|", "b", "=", "3">>
LineNotify == <<"n", "o", "t", "i", "f", "y", "x", " ", "a", "=", "1", " ">>
LineJunk == <<"h", "e", "l", "l", "o">>

Lines == {LineOk, LineFail, LineData, LineList, LineNotify, LineJunk}

\* trim and parse over the lines of the model, as tables: what handleLine
\* computes from a line depends on the line alone
Trimmed == [raw \in Lines |-> trim(raw)]
Parsed == [raw \in Lines |-> parse(Trimmed[raw])]

-----------------------------------------------------------------------------
(* The client: queue, current command, banner counter; with what it has    *)
(* written, settled and emitted.  The operators below take and return the  *)
(* whole client as a record, as the methods take and change this.          *)

Null == [null |-> TRUE]
NoError == "none"
NoData == [set |-> FALSE, params |-> NoParams]

\* the object send pushes: no data property yet; id names its promise
Command(text, id) == [cmd |-> text, id |-> id, data |-> NoData]

\* (fault: the command in flight is not looked at)
IdleAlways(current) == TRUE

\* !this._current
Idle(current) == current = Null

\* (fault: pop for shift)
pop(q) == [taken |-> q[Len(q)], rest |-> SubSeq(q, 1, Len(q) - 1)]

\* (fault: the head is read and left in the queue)
peek(q) == [taken |-> Head(q), rest |-> q]

\* this.queue.shift(): the element taken and the queue left
shift(q) == [taken |-> Head(q), rest |-> Tail(q)]

checkQueue(S) ==
    IF Idle(S.current) /\ S.queue # <<>>
    THEN LET sh == shift(S.queue)
         IN  [S EXCEPT !.current = sh.taken,
                       !.queue = sh.rest,
                       !.written = Append(@, [id   |-> sh.taken.id,
                                              data |-> sh.taken.cmd \o <<LF>>])]
    ELSE S

\* (fault: send does not wait for the banner)
ReadyAlways(statusLines) == TRUE

\* (fault: send never looks at the queue)
ReadyNever(statusLines) == FALSE

\* this._statusLines > 1
Ready(statusLines) == statusLines > 1

send(S, cmd, options, flags, id) ==
    LET pushed == [S EXCEPT !.queue =
                       Append(@, Command(CommandText(cmd, options, flags), id))]
    IN  IF Ready(pushed.statusLines) THEN checkQueue(pushed) ELSE pushed

IdKey == <<"i", "d">>

\* ToNumber(str) = 0, for the decimal forms without exponent: blank, or an
\* optional sign and zeros with at most one point
NumericZero(str) ==
    LET t == trim(str)
        u == IF t # <<>> /\ Head(t) \in {"+", "-"} THEN Tail(t) ELSE t
    IN  \/ t = <<>>
        \/ /\ \A i \in DOMAIN u : u[i] \in {"0", "."}
           /\ \E i \in DOMAIN u : u[i] = "0"
           /\ Cardinality({i \in DOMAIN u : u[i] = "."}) <= 1

\* response.params.id == 0: a missing id is undefined and an array of two
\* or more strings converts to NaN
IdIsZero(params) ==
    /\ IdKey \in DOMAIN params
    /\ ~params[IdKey].arr
    /\ NumericZero(params[IdKey].vals[1])

\* (fault: no line is taken for a notification)
IsNotifyNever(type) == FALSE

\* response.type.indexOf('notify') === 0
IsNotify(type) ==
    Len(type) >= 6 /\ SubSeq(type, 1, 6) = NotifyPrefix

\* response.type.slice(6)
EventName(type) == SubSeq(type, 7, Len(type))

\* (fault: the accumulated data is dropped)
ResolveWithTerminator(current, params) == params

\* this._current.data || response.params
ResolveValue(current, params) ==
    IF current.data.set THEN current.data.params ELSE params

\* (fault: reject is given what resolve is given)
RejectWithData(current, params) ==
    IF current.data.set THEN current.data.params ELSE params

\* the argument of this._current.reject
RejectValue(current, params) == params

\* (fault: the settled command stays current)
StillCurrent(current) == current

\* this._current = null, after the command is settled
AfterSettle(current) == Null

\* the branch of a line with the type 'error'
Terminate(S, params) ==
    IF S.current = Null
    THEN \* null has no resolve and no reject: a TypeError leaves handleLine
         [S EXCEPT !.error = "TypeError"]
    ELSE [S EXCEPT
            !.settled = Append(@,
                IF IdIsZero(params)
                THEN [id |-> S.current.id, how |-> "resolve",
                      value |-> ResolveValue(S.current, params)]
                ELSE [id |-> S.current.id, how |-> "reject",
                      value |-> RejectValue(S.current, params)]),
            !.current = AfterSettle(S.current)]

\* (fault: the first data line is kept, not the latest)
AccumulateFirst(S, params) ==
    IF S.current # Null /\ ~S.current.data.set
    THEN [S EXCEPT !.current.data = [set |-> TRUE, params |-> params]]
    ELSE S

\* (fault: a data line ends the command in flight)
AccumulateAndEnd(S, params) ==
    IF S.current # Null
    THEN [S EXCEPT !.current = Null]
    ELSE S

\* the branch of a line with no type (or one that is neither)
Accumulate(S, params) ==
    IF S.current # Null
    THEN [S EXCEPT !.current.data = [set |-> TRUE, params |-> params]]
    ELSE S

\* (fault: the queue is not looked at after a line)
NoAdvance(S) == S

\* the checkQueue call that ends the Ready branch of handleLine
Advance(S) == checkQueue(S)

\* (fault: one banner line is counted, not two)
InBannerOfOne(statusLines) == statusLines < 1

\* this._statusLines < 2
InBanner(statusLines) == statusLines < 2

handleLine(S0, rawLine) ==
    LET S == [S0 EXCEPT !.error = NoError]
    IN  IF InBanner(S.statusLines)
        THEN LET counted == [S EXCEPT !.statusLines = @ + 1]
             IN  IF counted.statusLines = 2 THEN checkQueue(counted) ELSE counted
        ELSE LET line == Trimmed[rawLine]
                 response == Parsed[rawLine]
             IN  IF response = NoResponse THEN S
                 ELSE IF response.type # <<>> /\ IsNotify(response.type)
                 THEN Advance([S EXCEPT !.events = Append(@,
                          [name   |-> EventName(response.type),
                           params |-> response.params,
                           line   |-> line])])
                 ELSE IF response.type # <<>> /\ response.type = ErrorTag
                 THEN LET T == Terminate(S, response.params)
                      IN  IF T.error # NoError THEN T ELSE Advance(T)
                 ELSE Advance(Accumulate(S, response.params))

-----------------------------------------------------------------------------
(* The state machine.                                                      *)

Client ==
    [queue |-> queue, current |-> _current, statusLines |-> _statusLines,
     written |-> written, settled |-> settled, events |-> events,
     error |-> lastError]

Becomes(S) ==
    /\ queue' = S.queue
    /\ _current' = S.current
    /\ _statusLines' = S.statusLines
    /\ written' = S.written
    /\ settled' = S.settled
    /\ events' = S.events
    /\ lastError' = S.error

CodecIdle == [stage |-> "idle", input |-> <<>>, escaped |-> <<>>, output |-> <<>>]

CallIdle == [stage |-> "idle"]

Init ==
    /\ queue = <<>>
    /\ _current = Null
    /\ _statusLines = 0
    /\ written = <<>>
    /\ settled = <<>>
    /\ events = <<>>
    /\ lastError = NoError
    /\ nsent = 0
    /\ noise = 0
    /\ lastData = NoData
    /\ codec = CodecIdle
    /\ call = CallIdle

\* a send call
Send ==
    /\ nsent < MaxSends
    /\ \E input \in SendInputs :
          \E after \in {send(Client, input.cmd, input.options, input.flags,
                             nsent + 1)} : Becomes(after)
    /\ nsent' = nsent + 1
    /\ lastData' = IF written' # written THEN NoData ELSE lastData
    /\ UNCHANGED <<noise, codec, call>>

\* The three kinds of line of the protocol, told by their text: a terminator
\* line begins with the keyword error, a notification line with a keyword
\* that carries the prefix notify, and a data line is any other line that
\* holds a key=value token.
BeginsWith(line, prefix) ==
    Len(line) >= Len(prefix) /\ SubSeq(line, 1, Len(prefix)) = prefix

IsErrorLine(line) == BeginsWith(trim(line), ErrorTag)

IsNotifyLine(line) ==
    /\ BeginsWith(trim(line), NotifyPrefix)
    /\ Len(trim(line)) >= 7
    /\ trim(line)[7] \in WordChars

IsDataLine(line) ==
    /\ ~IsErrorLine(line)
    /\ ~IsNotifyLine(line)
    /\ MatchAll(trim(line), 1) # <<>>

\* the key=value fields of a line
Fields(line) == parse(trim(line)).params

ErrorLines == {line \in Lines : IsErrorLine(line)}
DataLines == {line \in Lines : IsDataLine(line)}
DataFields == [line \in DataLines |-> Fields(line)]

\* a line the connection waits for: a banner line, or the terminator of the
\* command in flight
Awaited(line) ==
    \/ _statusLines < 2
    \/ line \in ErrorLines /\ _current # Null

\* handleLine called with one line
LineStep(line) ==
    /\ Awaited(line) \/ noise < MaxNoise
    /\ \E after \in {handleLine(Client, line)} : Becomes(after)
    /\ noise' = IF Awaited(line) THEN noise ELSE noise + 1
    /\ lastData' = IF written' # written \/ _current' = Null THEN NoData
                   ELSE IF _statusLines = 2 /\ line \in DataLines
                        THEN [set |-> TRUE, params |-> DataFields[line]]
                        ELSE lastData
    /\ UNCHANGED <<nsent, codec, call>>

\* the carrier's 'line' event
Line == \E line \in Lines : LineStep(line)

Next == Send \/ Line

Spec == Init /\ [][Next]_vars

\* The server keeps its side of the protocol: it sends its two banner lines,
\* and it ends every command it was sent with a terminator line.
Banner == _statusLines < 2 /\ Line

Terminator ==
    \E line \in ErrorLines : _current # Null /\ LineStep(line)

LiveSpec == Spec /\ WF_vars(Banner) /\ WF_vars(Terminator)

-----------------------------------------------------------------------------
(* The codec on its own: escape, then unescape, of every short string.     *)

CodecInit ==
    /\ queue = <<>>
    /\ _current = Null
    /\ _statusLines = 0
    /\ written = <<>>
    /\ settled = <<>>
    /\ events = <<>>
    /\ lastError = NoError
    /\ nsent = 0
    /\ noise = 0
    /\ lastData = NoData
    /\ codec \in {[stage |-> "input", input |-> s,
                   escaped |-> <<>>, output |-> <<>>] :
                      s \in StringsUpTo(CodecChars, MaxStrLen)}
    /\ call = CallIdle

Escape ==
    /\ codec.stage = "input"
    /\ codec' = [codec EXCEPT !.stage = "escaped",
                              !.escaped = escape(codec.input)]
    /\ UNCHANGED <<session, call>>

Unescape ==
    /\ codec.stage = "escaped"
    /\ codec' = [codec EXCEPT !.stage = "done",
                              !.output = unescape(codec.escaped)]
    /\ UNCHANGED <<session, call>>

CodecNext == Escape \/ Unescape

CodecSpec == CodecInit /\ [][CodecNext]_vars

-----------------------------------------------------------------------------
(* The command text on its own: send's text for every call of a small set. *)

\* the properties an options object of the model is made of
TextEntries ==
    { [key |-> <<"a", " ">>, arr |-> FALSE, vals |-> << <<" ">> >>],
      [key |-> <<"b", "|">>, arr |-> TRUE, vals |-> << <<"x">>, <<"/">> >>],
      [key |-> <<"c">>, arr |-> TRUE, vals |-> <<>>],
      [key |-> <<"1">>, arr |-> FALSE, vals |-> << <<"x">> >>] }

\* every object made of some of them, in every order of insertion
TextObjects ==
    {es \in UNION {[1..n -> TextEntries] : n \in 0..Cardinality(TextEntries)} :
        \A i, j \in DOMAIN es : i # j => es[i] # es[j]}

TextFlags == { <<>>, << <<"f">> >>, << <<"-", "g", " ">>, <<"f">> >> }

TextOptions ==
    {[kind |-> "object", entries |-> es] : es \in TextObjects}
    \cup {[kind |-> "flag", val |-> <<"/">>], [kind |-> "none"]}

SessionIdle ==
    /\ queue = <<>>
    /\ _current = Null
    /\ _statusLines = 0
    /\ written = <<>>
    /\ settled = <<>>
    /\ events = <<>>
    /\ lastError = NoError
    /\ nsent = 0
    /\ noise = 0
    /\ lastData = NoData

TextInit ==
    /\ SessionIdle
    /\ codec = CodecIdle
    /\ call \in {[stage |-> "args", cmd |-> <<"k">>, options |-> o,
                  flags |-> f, text |-> <<>>] :
                     o \in TextOptions, f \in TextFlags}

\* lines 49 to 70 of send: the text of the command pushed on the queue
BuildText ==
    /\ call.stage = "args"
    /\ call' = [call EXCEPT !.stage = "text",
                            !.text = CommandText(call.cmd, call.options,
                                                 call.flags)]
    /\ UNCHANGED <<session, codec>>

TextSpec == TextInit /\ [][BuildText]_vars

-----------------------------------------------------------------------------
(* parse on its own: every line of up to MaxTokens tokens of a small set.  *)

\* The key=value tokens a line of the model is made of: a key sent twice
\* with two values, a value that holds a '=', a key that is also a name of
\* Object.prototype, and a value with an escape sequence.
WireTokens ==
    { [key |-> <<"a">>, value |-> <<"1">>],
      [key |-> <<"a">>, value |-> <<"2">>],
      [key |-> <<"b">>, value |-> <<"x", "=", "y">>],
      [key |-> <<"v", "a", "l", "u", "e", "O", "f">>, value |-> <<"1">>],
      [key |-> <<"c">>, value |-> <<BSL, "s">>] }

\* the separators of tokens in a line of the server
WireSeparators == {<<" ">>, <<"|">>}

\* the line of the server that carries the tokens
WireLine(tokens, sep) ==
    join([i \in DOMAIN tokens |->
              tokens[i].key \o <<"=">> \o tokens[i].value], sep)

ParseInit ==
    /\ SessionIdle
    /\ codec = CodecIdle
    /\ call \in {[stage |-> "line", tokens |-> ts, line |-> WireLine(ts, sep),
                  result |-> NoResponse] :
                     ts \in UNION {[1..n -> WireTokens] : n \in 0..MaxTokens},
                     sep \in WireSeparators}

\* TeamspeakQuery.parse called with the line
Parse ==
    /\ call.stage = "line"
    /\ call' = [call EXCEPT !.stage = "parsed", !.result = parse(call.line)]
    /\ UNCHANGED <<session, codec>>

ParseSpec == ParseInit /\ [][Parse]_vars

-----------------------------------------------------------------------------
(* Properties.                                                             *)

Ids(log) == {log[i].id : i \in DOMAIN log}

\* the commands written to the transport and not settled yet
InFlight == Ids(written) \ Ids(settled)

\* C1: in every reachable state at most one command is in flight: of the
\* commands written to the transport, at most one is not settled yet.
C1_AtMostOneInFlight == Cardinality(InFlight) <= 1

\* a command is in flight while others wait in the queue
C1_Witness ==
    /\ _current # Null
    /\ Len(queue) >= 2
    /\ Cardinality(InFlight) = 1

\* C2: commands are written in the order they were submitted and settle in
\* that order: the i-th write and the i-th settlement are those of the i-th
\* send call, and nothing is settled that was not written.
C2_Fifo ==
    /\ \A i \in DOMAIN written : written[i].id = i
    /\ \A i \in DOMAIN settled : settled[i].id = i
    /\ Len(settled) <= Len(written)
    /\ \A i \in DOMAIN queue : queue[i].id = Len(written) + i

\* three commands, all written and settled
C2_Witness == Len(written) = 3 /\ Len(settled) = 3

\* C3: nothing is written before the second banner line is processed;
\* commands sent before stay queued, and the step that processes the second
\* banner line writes the first of them.
C3_NoDispatchBeforeReady ==
    [][ /\ _statusLines' < 2 =>
            /\ written' = <<>>
            /\ _current' = Null
            /\ Len(queue') = nsent'
        /\ (_statusLines = 1 /\ _statusLines' = 2 /\ queue # <<>>) =>
            /\ written' = <<[id   |-> Head(queue).id,
                             data |-> Head(queue).cmd \o <<LF>>]>>
            /\ _current' = Head(queue)
            /\ queue' = Tail(queue) ]_vars

\* the second banner line has just released the first of two queued commands
C3_Witness ==
    /\ _statusLines = 2
    /\ Len(written) = 1
    /\ settled = <<>>
    /\ noise = 0
    /\ Len(queue) = 1
    /\ nsent = 2

Last(log) == log[Len(log)]

\* the id field of a terminator line, read off its text: a run of zeros, or
\* digits that are not all zeros
ZeroId(line) ==
    LET f == Fields(line)
    IN  /\ IdKey \in DOMAIN f
        /\ ~f[IdKey].arr
        /\ f[IdKey].vals[1] # <<>>
        /\ \A i \in DOMAIN f[IdKey].vals[1] : f[IdKey].vals[1][i] = "0"

NonZeroId(line) ==
    LET f == Fields(line)
    IN  /\ IdKey \in DOMAIN f
        /\ ~f[IdKey].arr
        /\ \A i \in DOMAIN f[IdKey].vals[1] : f[IdKey].vals[1][i] \in Digits
        /\ \E i \in DOMAIN f[IdKey].vals[1] : f[IdKey].vals[1][i] # "0"

\* C4: a deferred result is settled at most once, by resolve or by reject,
\* and only in a step that processes a terminator line while its command is
\* current: every step that changes the settlements is handleLine on a
\* terminator line and adds exactly one, that of the current command, which
\* is neither queued nor settled already.
C4_SettledOnceByTerminator ==
    [][ settled' # settled =>
          /\ _current # Null
          /\ \E line \in Lines : IsErrorLine(line) /\ LineStep(line)
          /\ Len(settled') = Len(settled) + 1
          /\ SubSeq(settled', 1, Len(settled)) = settled
          /\ Last(settled').id = _current.id
          /\ Last(settled').how \in {"resolve", "reject"}
          /\ _current.id \notin Ids(settled)
          /\ _current.id \notin Ids(queue) ]_vars

\* one command was resolved, another rejected, a third is in flight
C4_Witness ==
    /\ \E i \in DOMAIN settled : settled[i].how = "resolve"
    /\ \E i \in DOMAIN settled : settled[i].how = "reject"
    /\ _current # Null
    /\ _current.id \notin Ids(settled)

\* C5: when the server sends both banner lines and a terminator line for
\* every command written, every command sent, before or after the banner,
\* is eventually written and eventually settled.
C5_EventuallySettled ==
    \A i \in 1..MaxSends :
        (nsent >= i) ~> (i \in Ids(written) /\ i \in Ids(settled))

\* every command of the behaviour was written and settled, by banner and
\* terminator lines alone
C5_Witness ==
    /\ nsent = MaxSends
    /\ Ids(settled) = 1..MaxSends
    /\ queue = <<>>
    /\ _current = Null
    /\ noise = 0

\* C6: unescape(escape(s)) = s for every string s over the alphabet
\* CodecChars.
C6_RoundTrip ==
    codec.stage = "done" => codec.output = codec.input

\* C7: a terminator line with id zero resolves the current command with the
\* fields of the latest data line handled while it was current, and with the
\* terminator's own fields when there was none.
C7_ResolveValue ==
    [][ \A line \in Lines :
          ( /\ _statusLines = 2
            /\ _current # Null
            /\ IsErrorLine(line)
            /\ ZeroId(line)
            /\ LineStep(line) )
          => settled' = Append(settled,
                 [id    |-> _current.id,
                  how   |-> "resolve",
                  value |-> IF lastData.set THEN lastData.params
                            ELSE Fields(line)]) ]_vars

\* one command was resolved with the fields of a data line, another with
\* the fields of its terminator
C7_Witness ==
    /\ \E i \in DOMAIN settled :
          settled[i].how = "resolve" /\ settled[i].value = Fields(LineList)
    /\ \E i \in DOMAIN settled :
          settled[i].how = "resolve" /\ settled[i].value = Fields(LineOk)
    /\ noise = 2

\* C8: a terminator line with a non-zero id rejects the current command with
\* the terminator's fields, and in the same step the next queued command, if
\* any, becomes current and is written; the rest of the queue, the earlier
\* settlements and the earlier writes stay as they were.
C8_RejectAndAdvance ==
    [][ \A line \in Lines :
          ( /\ _statusLines = 2
            /\ _current # Null
            /\ IsErrorLine(line)
            /\ NonZeroId(line)
            /\ LineStep(line) )
          => /\ settled' = Append(settled,
                     [id |-> _current.id, how |-> "reject",
                      value |-> Fields(line)])
             /\ IF queue = <<>>
                THEN _current' = Null /\ queue' = queue /\ written' = written
                ELSE /\ _current' = Head(queue)
                     /\ queue' = Tail(queue)
                     /\ written' = Append(written,
                            [id   |-> Head(queue).id,
                             data |-> Head(queue).cmd \o <<LF>>]) ]_vars

\* after other lines, a command was rejected with the terminator's fields,
\* the next one was written in its place and a third still waits
C8_Witness ==
    /\ settled # <<>>
    /\ Last(settled).how = "reject"
    /\ Last(settled).value = Fields(LineFail)
    /\ Len(written) = Len(settled) + 1
    /\ queue # <<>>
    /\ noise >= 1

\* C9: handling a notification line in the Ready phase adds exactly one emit
\* call, named by the tag without its notify prefix and carrying the fields
\* and the line, and changes neither the queue, nor the current command and
\* its data, nor the settlements, nor what was written.
C9_NotifyFrame ==
    [][ \A line \in Lines :
          (_statusLines = 2 /\ IsNotifyLine(line) /\ LineStep(line))
          => /\ Len(events') = Len(events) + 1
             /\ SubSeq(events', 1, Len(events)) = events
             /\ NotifyPrefix \o Last(events').name =
                    Head(MatchAll(trim(line), 1))
             /\ Last(events').params = Fields(line)
             /\ Last(events').line = trim(line)
             /\ UNCHANGED <<queue, _current, settled, written>> ]_vars

\* a notification was handled; a command with data is in flight and
\* another waits
C9_Witness ==
    /\ events # <<>>
    /\ _current # Null
    /\ _current.data.set
    /\ queue # <<>>

\* C10: no handleLine call throws.
C10_NeverThrows == lastError = NoError

\* C13: in the Ready phase, after any send call or line, a queue that is not
\* empty goes with a command in flight.
C13_NoIdleBacklog ==
    (_statusLines = 2 /\ queue # <<>>) => _current # Null

\* a terminator has settled one command and written the next, a third waits
C13_Witness ==
    /\ _statusLines = 2
    /\ Len(settled) = 1
    /\ Len(written) = 2
    /\ _current # Null
    /\ queue # <<>>

\* C14: a command is current exactly when it was written and is not settled:
\* the writes are one more than the settlements while a command is current
\* and as many otherwise, and no command is written twice.
C14_CurrentIffInFlight ==
    /\ InFlight = IF _current = Null THEN {} ELSE {_current.id}
    /\ Len(written) = Len(settled) + (IF _current = Null THEN 0 ELSE 1)
    /\ Cardinality(Ids(written)) = Len(written)

\* the second command is in flight after the first was settled
C14_Witness ==
    /\ _current # Null
    /\ _current.id = 2
    /\ Ids(settled) = {1}
    /\ Ids(written) = {1, 2}

\* C15: while a command is current, a step that is not the handling of a
\* terminator line (a send call; a data, notification or unparseable line)
\* writes nothing and settles nothing: the command stays current and the
\* queue only grows.
C15_BlockedUntilTerminator ==
    [][ ( /\ _statusLines = 2
          /\ _current # Null
          /\ ~ \E line \in Lines : IsErrorLine(line) /\ LineStep(line) )
        => /\ written' = written
           /\ settled' = settled
           /\ _current' # Null
           /\ _current'.id = _current.id
           /\ Len(queue') >= Len(queue)
           /\ SubSeq(queue', 1, Len(queue)) = queue ]_vars

\* after two lines that are no terminator and two more send calls the first
\* command is still the only one written
C15_Witness ==
    /\ _current # Null
    /\ _current.id = 1
    /\ Len(written) = 1
    /\ settled = <<>>
    /\ noise = 2
    /\ Len(queue) = 2

\* C16: the first two lines are only counted, whatever they hold: such a step
\* adds one to the counter and emits, settles and throws nothing; the counter
\* never decreases, never passes 2, and a line handled at 2 leaves it at 2.
C16_BannerDiscarded ==
    [][ /\ _statusLines' \in {_statusLines, _statusLines + 1}
        /\ _statusLines' <= 2
        /\ \A line \in Lines : LineStep(line) =>
              IF _statusLines < 2
              THEN /\ _statusLines' = _statusLines + 1
                   /\ events' = events
                   /\ settled' = settled
                   /\ lastError' = NoError
                   /\ noise' = noise
              ELSE _statusLines' = 2
        /\ (~ \E line \in Lines : LineStep(line)) =>
              _statusLines' = _statusLines ]_vars

\* both banner lines were handled with commands waiting: nothing emitted,
\* nothing settled, the first command written
C16_Witness ==
    /\ _statusLines = 2
    /\ nsent = 3
    /\ Len(written) = 1
    /\ events = <<>>
    /\ settled = <<>>
    /\ noise = 0

\* a line that holds a token of the pattern of parse, told by its text: it
\* begins with error, or with notify and a word character, or it holds a '='
\* between a word character and a value character
HasToken(line) ==
    LET t == trim(line)
    IN  \/ Len(t) >= 5 /\ LowerStr(SubSeq(t, 1, 5)) = ErrorTag
        \/ /\ Len(t) >= 7
           /\ LowerStr(SubSeq(t, 1, 6)) = NotifyPrefix
           /\ t[7] \in WordChars
        \/ \E i \in 2..(Len(t) - 1) :
              /\ t[i] = "="
              /\ t[i - 1] \in WordChars
              /\ ValueChar(t[i + 1])

\* C17: a line handled in the Ready phase that holds no token changes
\* neither the queue, nor the current command and its data, nor the
\* settlements, nor what was written, nor the events.
C17_JunkFrame ==
    [][ \A line \in Lines :
          (_statusLines = 2 /\ ~HasToken(line) /\ LineStep(line))
          => UNCHANGED <<queue, _current, settled, written, events,
                         _statusLines>> ]_vars

\* two lines that ended no command were handled and left neither an event
\* nor data with the command in flight
C17_Witness ==
    /\ _statusLines = 2
    /\ noise = 2
    /\ events = <<>>
    /\ _current # Null
    /\ _current.id = 1
    /\ ~_current.data.set
    /\ lastError = NoError

\* C20: the data of the current command is that of the latest data line
\* handled since it was written; a data line handled in the Ready phase
\* while no command is current changes nothing; and a command starts
\* without data when it is written.
C20_DataOfCurrentOnly ==
    [][ /\ _current' # Null => _current'.data = lastData'
        /\ written' # written => _current'.data = NoData
        /\ \A line \in Lines :
              ( /\ _statusLines = 2
                /\ _current = Null
                /\ IsDataLine(line)
                /\ LineStep(line) )
              => UNCHANGED <<queue, _current, settled, written, events>>
        /\ settled' # settled =>
              ( Last(settled').how = "resolve" =>
                  \/ lastData.set /\ Last(settled').value = lastData.params
                  \/ /\ ~lastData.set
                     /\ \E line \in ErrorLines :
                            Last(settled').value = Fields(line) )
      ]_vars

\* a line that ended no command left no data behind: the one command sent
\* was resolved with the fields of its terminator
C20_Witness ==
    /\ noise >= 1
    /\ events = <<>>
    /\ lastError = NoError
    /\ Len(settled) = 1
    /\ settled[1].how = "resolve"
    /\ settled[1].value = Fields(LineOk)
    /\ nsent = 1

\* The character an escape sequence stands for, by the letter after the
\* backslash.
Decoded(c) ==
    CASE c = BSL -> BSL
      [] c = "/" -> "/"
      [] c = "p" -> "|"
      [] c = "n" -> LF
      [] c = "r" -> CR
      [] c = "t" -> TAB
      [] c = "v" -> VT
      [] c = "f" -> FF
      [] c = "s" -> " "

EscapeLetters == {BSL, "/", "p", "n", "r", "t", "v", "f", "s"}

\* A decoder that reads its input once from left to right: a backslash and
\* the escape letter after it are consumed together and give one character,
\* which is never read again; every other character is copied.
RECURSIVE SinglePass(_)
SinglePass(s) ==
    IF s = <<>> THEN <<>>
    ELSE IF Len(s) >= 2 /\ s[1] = BSL /\ s[2] \in EscapeLetters
         THEN <<Decoded(s[2])>> \o SinglePass(SubSeq(s, 3, Len(s)))
         ELSE <<Head(s)>> \o SinglePass(Tail(s))

\* C19: unescape gives, for every text handed to it, what the single
\* left-to-right pass gives: no character produced by one substitution is
\* taken as part of an escape sequence by a later one.
C19_SinglePass ==
    codec.stage = "done" => codec.output = SinglePass(codec.escaped)

\* The text the claim describes, written out front to back: the pairs of one
\* parameter with '|' between them, and a space before every token after
\* the name.
RECURSIVE Pairs(_, _)
Pairs(key, vals) ==
    IF vals = <<>> THEN <<>>
    ELSE escape(key) \o <<"=">> \o escape(Head(vals))
         \o (IF Len(vals) > 1 THEN <<"|">> ELSE <<>>)
         \o Pairs(key, Tail(vals))

RECURSIVE Spaced(_)
Spaced(tokens) ==
    IF tokens = <<>> THEN <<>>
    ELSE <<" ">> \o Head(tokens) \o Spaced(Tail(tokens))

Described(name, params, flags) ==
    name
    \o Spaced([i \in DOMAIN params |-> Pairs(params[i].key, params[i].vals)])
    \o Spaced([i \in DOMAIN flags |-> escape(flags[i])])

\* the keyed parameters and the bare flags of the call in progress
Keyed == IF call.options.kind = "object" THEN call.options.entries ELSE <<>>

Bare ==
    IF call.options.kind = "flag" THEN <<call.options.val>> \o call.flags
    ELSE call.flags

\* C11 as stated: the text is the name, then the token of every keyed
\* parameter in the order the parameters were inserted (a scalar as
\* escape(k)=escape(v), a list as its pairs joined by '|' in list order),
\* then every bare flag escaped, all joined by spaces.
C11_InsertionOrder ==
    call.stage = "text" => call.text = Described(call.cmd, Keyed, Bare)

\* the orders of the keyed parameters
Arrangements(es) ==
    {p \in [DOMAIN es -> DOMAIN es] : \A i, j \in DOMAIN es : i # j => p[i] # p[j]}

\* p visits the integer-index names first, ascending, and then the other
\* names in the order of their insertion
IndexFirst(es, p) ==
    \A i, j \in DOMAIN es : i < j =>
        LET a == es[p[i]].key
            b == es[p[j]].key
        IN  /\ IsIndexKey(b) => IsIndexKey(a) /\ IndexLess(a, b)
            /\ ~IsIndexKey(a) => p[i] < p[j]

\* C11, amended: the text is the name, then the token of every keyed
\* parameter, those with an integer-index name first in ascending order
\* and then the others in insertion order (a scalar as escape(k)=escape(v),
\* a list as its pairs joined by '|' in list order), then every bare flag
\* escaped, all joined by spaces.
C11_ForInOrder ==
    call.stage = "text" =>
        \E p \in Arrangements(Keyed) :
            /\ IndexFirst(Keyed, p)
            /\ call.text = Described(call.cmd,
                                     [i \in DOMAIN Keyed |-> Keyed[p[i]]], Bare)

\* the text was built of a call with four keyed parameters, the one with the
\* integer-index name inserted last and the list of two values before the
\* scalar, and with two bare flags
C11_Witness ==
    /\ call.stage = "text"
    /\ call.options.kind = "object"
    /\ Len(call.options.entries) = 4
    /\ call.options.entries[4].key = <<"1">>
    /\ call.options.entries[1].key = <<"b", "|">>
    /\ call.options.entries[2].key = <<"a", " ">>
    /\ Len(call.flags) = 2

\* the values the tokens of the line give for key k, in order of occurrence
ValuesOf(k) ==
    LET Named(t) == unescape(t.key) = k
        same == SelectSeq(call.tokens, Named)
    IN  [i \in DOMAIN same |-> unescape(same[i].value)]

\* the keys of the tokens of the line whose values hold no '='
PlainKeys ==
    {unescape(call.tokens[i].key) : i \in DOMAIN call.tokens} \
    {unescape(call.tokens[i].key) :
        i \in {j \in DOMAIN call.tokens :
                  \E n \in DOMAIN call.tokens[j].value :
                      call.tokens[j].value[n] = "="}}

\* C12: in the fields parse returns, a key that occurs once in the line has
\* its value as a scalar, and a key that occurs n >= 2 times has the list of
\* its n values in order of occurrence (stated for the keys whose values
\* hold no '=', which C18 is about).
C12_FieldAssembly ==
    call.stage = "parsed" /\ call.tokens # <<>> =>
        \A k \in PlainKeys :
            /\ k \in DOMAIN call.result.params
            /\ call.result.params[k] =
                  [arr |-> Len(ValuesOf(k)) >= 2, vals |-> ValuesOf(k)]

\* C18: every key=value token of the line gives a field: its key is the
\* unescaped text before the first '=', and its value, the unescaped whole
\* text after that '=', is the field's value or one of the values of its
\* list.
C18_SplitOnce ==
    call.stage = "parsed" /\ call.tokens # <<>> =>
        \A i \in DOMAIN call.tokens :
            LET k == unescape(call.tokens[i].key)
                v == unescape(call.tokens[i].value)
            IN  /\ k \in DOMAIN call.result.params
                /\ \E j \in DOMAIN call.result.params[k].vals :
                       call.result.params[k].vals[j] = v

=============================================================================
